---- MODULE Spec2Model ----
(***************************************************************************)
(* The form lifecycle controller (FormView) of fxa-content-server:         *)
(* validation, the beforeSubmit -> submit -> afterSubmit promise chain,    *)
(* error display and change detection.  Every promise callback is one      *)
(* action; user edits, DOM events and tooltip callbacks interleave freely  *)
(* with the callbacks of a pending chain.  The relier model (Relier) that   *)
(* the screens read is hydrated by fetch from the resume token and the      *)
(* query parameters.                                                        *)
(***************************************************************************)
EXTENDS Integers, Sequences, FiniteSets, Bags, TLC

VARIABLES
  hooks,                \* the subclass's overrides
  rendered,             \* afterRender has run
  fields,               \* raw value of every input element, in DOM order
  _previousFormValues,  \* baseline snapshot of change detection
  _isSubmitting,        \* single-flight flag
  _isHalted,
  _isFormEnabled,
  _isErrorVisible,      \* an error message is shown
  successVisible,
  tooltips,             \* bag of the validation tooltips shown or still rendering
  invalidEls,           \* elements carrying the `invalid` class
  pc,                   \* position of the pending promise chain
  chainVal,             \* value (or error) flowing down the chain
  run,                  \* what the current (or last) accepted submission did
  trace,                \* the signals the last step triggered
  relier,               \* the relier model: its attributes and the promise of fetch
  search                \* window.location.search: the resume token and the parameters

vars == <<hooks, rendered, fields, _previousFormValues, _isSubmitting, _isHalted,
          _isFormEnabled, _isErrorVisible, successVisible, tooltips, invalidEls,
          pc, chainVal, run, trace, relier, search>>

\* everything but the record of the last operation
progVars == <<hooks, rendered, fields, _previousFormValues, _isSubmitting, _isHalted,
              _isFormEnabled, _isErrorVisible, successVisible, tooltips, invalidEls,
              pc, chainVal, run>>

-----------------------------------------------------------------------------
(* Bounds *)

\* validation tooltips alive at once; a validation pass that would show one more
\* waits until one of them is destroyed
MaxTooltips == 1

\* the same, where showValidationErrors is also called directly, one call after
\* another
MaxShown == 2

-----------------------------------------------------------------------------
(* The rendered form: a required text field, an email field, a password    *)
(* field shown as text, and a required input inside #coppa.                *)

FormEls == <<
  [name |-> "name",     type |-> "text",  passwordClass |-> FALSE, required |-> TRUE,  inCoppa |-> FALSE],
  [name |-> "email",    type |-> "email", passwordClass |-> FALSE, required |-> TRUE,  inCoppa |-> FALSE],
  [name |-> "password", type |-> "text",  passwordClass |-> TRUE,  required |-> TRUE,  inCoppa |-> FALSE],
  [name |-> "age",      type |-> "text",  passwordClass |-> FALSE, required |-> TRUE,  inCoppa |-> TRUE] >>

ElIds == 1..Len(FormEls)

\* this.$('input').not('#coppa input'), in DOM order
InScope(i) == ~FormEls[i].inCoppa

EmptyStr == <<>>
ValidEmail == <<"a", "@", "b">>
PaddedEmail == <<"a", "@", "b", " ">>
BadEmail == <<"a">>
ShortPassword == <<"p", "w", "d">>
GoodPassword == <<"p", "a", "s", "s", "w", "o", "r", "d">>

\* the values a user types into element i
EditValues(i) ==
  CASE FormEls[i].type = "email" -> {EmptyStr, ValidEmail, PaddedEmail}
    [] FormEls[i].passwordClass -> {EmptyStr, GoodPassword}
    [] FormEls[i].inCoppa -> {EmptyStr}
    [] OTHER -> {EmptyStr, <<"x">>}

Errors == {"E1", "E2"}

-----------------------------------------------------------------------------
(* Collaborators outside this file *)

PasswordMinLength == 8

\* Validate.isEmailValid: non-empty, one "@" with text on both sides, no blank
isEmailValid(s) ==
  /\ Len(s) >= 3
  /\ \A k \in 1..Len(s) : s[k] # " "
  /\ \E k \in 2..(Len(s) - 1) :
       /\ s[k] = "@"
       /\ \A j \in 1..Len(s) : s[j] = "@" => j = k

\* Validate.isPasswordValid: minimum length
isPasswordValid(s) == Len(s) >= PasswordMinLength

\* AuthErrors.toMessage(AuthErrors.toError(kind))
toMessage(kind) ==
  CASE kind = "INVALID_EMAIL" -> "Valid email required"
    [] kind = "EMAIL_REQUIRED" -> "Email required"
    [] kind = "PASSWORD_TOO_SHORT" -> "Must be at least 8 characters"
    [] kind = "PASSWORD_REQUIRED" -> "Password required"

\* $.trim
RECURSIVE TrimLeft(_)
TrimLeft(s) == IF s # <<>> /\ Head(s) = " " THEN TrimLeft(Tail(s)) ELSE s

RECURSIVE TrimRight(_)
TrimRight(s) ==
  IF s # <<>> /\ s[Len(s)] = " " THEN TrimRight(SubSeq(s, 1, Len(s) - 1)) ELSE s

Trim(s) == TrimRight(TrimLeft(s))

\* el[0].validity.valid of a text input: only valueMissing can be set
NativeValidity(i, value) == ~(FormEls[i].required /\ value = <<>>)

-----------------------------------------------------------------------------
(* Validation engine *)

getElementType(i) ==
  IF FormEls[i].type = "text" /\ FormEls[i].passwordClass
    THEN "password"
    ELSE FormEls[i].type

getElementValue(i) ==
  IF fields[i] # <<>> /\ getElementType(i) = "email"
    THEN Trim(fields[i])
    ELSE fields[i]

validateEmail(i) == isEmailValid(getElementValue(i))

validatePassword(i) == isPasswordValid(getElementValue(i))

validateInput(i) ==
  IF FormEls[i].required /\ Len(getElementValue(i)) = 0
    THEN FALSE
    ELSE NativeValidity(i, fields[i])

isElementValid(i) ==
  CASE getElementType(i) = "email" -> validateEmail(i)
    [] getElementType(i) = "password" -> validatePassword(i)
    [] OTHER -> validateInput(i)

\* the loop shared by isValid and showValidationErrors: the first in-scope
\* element at or after i that is invalid, 0 when there is none
RECURSIVE FirstInvalidFrom(_)
FirstInvalidFrom(i) ==
  IF i > Len(FormEls) THEN 0
  ELSE IF InScope(i) /\ ~isElementValid(i) THEN i
  ELSE FirstInvalidFrom(i + 1)

isValidStart == hooks.isValidStart

isValidEnd == hooks.isValidEnd

\* faulty variant: the inputs inside #coppa are validated with the others
isValid_IncludesCoppa ==
  IF ~isValidStart THEN FALSE
  ELSE IF \E i \in ElIds : ~isElementValid(i) THEN FALSE
  ELSE isValidEnd

isValid ==
  IF ~isValidStart THEN FALSE
  ELSE IF FirstInvalidFrom(1) # 0 THEN FALSE
  ELSE isValidEnd

-----------------------------------------------------------------------------
(* Flags *)

\* faulty variant: the flag is never consulted
isSubmitting_NeverSet == FALSE

isSubmitting == _isSubmitting

isHalted == _isHalted

isFormEnabled == _isFormEnabled

isErrorVisible == _isErrorVisible

-----------------------------------------------------------------------------
(* Change detection *)

\* undefined: no baseline yet
NoValues == <<>>

getFormValues == [i \in ElIds |-> getElementValue(i)]

\* faulty variant: the snapshot is returned whether or not it differs
detectFormValueChanges_Always == getFormValues

\* the new snapshot, or NoValues for null
detectFormValueChanges ==
  IF _previousFormValues # getFormValues THEN getFormValues ELSE NoValues

-----------------------------------------------------------------------------
(* Error presentation *)

showValidationErrorsStart == hooks.showValidationErrorsStart

\* faulty variant: the email is looked at as typed, blanks included
showEmailValidationError_RawValue(i) ==
  LET kind == IF fields[i] # <<>> THEN "INVALID_EMAIL" ELSE "EMAIL_REQUIRED"
  IN [el |-> i, kind |-> kind, ret |-> toMessage(kind)]

showEmailValidationError(i) ==
  LET kind == IF getElementValue(i) # <<>> THEN "INVALID_EMAIL" ELSE "EMAIL_REQUIRED"
  IN [el |-> i, kind |-> kind, ret |-> toMessage(kind)]

showPasswordValidationError(i) ==
  LET kind == IF getElementValue(i) # <<>> THEN "PASSWORD_TOO_SHORT" ELSE "PASSWORD_REQUIRED"
  IN [el |-> i, kind |-> kind, ret |-> toMessage(kind)]

NothingShown == [el |-> 0, kind |-> "none", ret |-> "undefined"]

\* faulty variant: the field's error is shown and its message is not returned
showValidationErrors_DropsReturn ==
  IF showValidationErrorsStart THEN NothingShown
  ELSE LET i == FirstInvalidFrom(1) IN
    IF i = 0 THEN NothingShown
    ELSE IF getElementType(i) = "email"
      THEN [showEmailValidationError(i) EXCEPT !.ret = "undefined"]
    ELSE IF getElementType(i) = "password"
      THEN [showPasswordValidationError(i) EXCEPT !.ret = "undefined"]
    ELSE NothingShown

\* faulty variant: the loop goes on past an invalid field that has no message
showValidationErrors_SkipsGeneric ==
  IF showValidationErrorsStart THEN NothingShown
  ELSE LET bad == {i \in ElIds : /\ InScope(i)
                                 /\ ~isElementValid(i)
                                 /\ getElementType(i) \in {"email", "password"}}
       IN
    IF bad = {} THEN NothingShown
    ELSE LET i == CHOOSE k \in bad : \A j \in bad : k <= j IN
      IF getElementType(i) = "email"
        THEN showEmailValidationError(i)
        ELSE showPasswordValidationError(i)

\* what showValidationErrors shows and returns: el = 0 when no tooltip is made
showValidationErrors ==
  IF showValidationErrorsStart THEN NothingShown
  ELSE LET i == FirstInvalidFrom(1) IN
    IF i = 0 THEN NothingShown
    ELSE IF getElementType(i) = "email" THEN showEmailValidationError(i)
    ELSE IF getElementType(i) = "password" THEN showPasswordValidationError(i)
    ELSE NothingShown

\* faulty variant: an invalid field with no message ends the loop, not the method
showValidationErrorsCalls_EndAfterGeneric ==
  <<"hideError", "showValidationErrorsStart">> \o
    IF showValidationErrorsStart THEN <<>>
    ELSE LET i == FirstInvalidFrom(1) IN
      IF i = 0 THEN <<"showValidationErrorsEnd">>
      ELSE IF getElementType(i) = "email" THEN <<"showEmailValidationError">>
      ELSE IF getElementType(i) = "password" THEN <<"showPasswordValidationError">>
      ELSE <<"showValidationErrorsEnd">>

\* the methods showValidationErrors calls on the view, in the order it calls them
showValidationErrorsCalls ==
  <<"hideError", "showValidationErrorsStart">> \o
    IF showValidationErrorsStart THEN <<>>
    ELSE LET i == FirstInvalidFrom(1) IN
      IF i = 0 THEN <<"showValidationErrorsEnd">>
      ELSE IF getElementType(i) = "email" THEN <<"showEmailValidationError">>
      ELSE IF getElementType(i) = "password" THEN <<"showPasswordValidationError">>
      ELSE <<>>

\* showValidationError(el, err): a new tooltip, rendering asynchronously
showValidationError(shown) ==
  tooltips (+) SetToBag({[el |-> shown.el, state |-> "rendering"]})

-----------------------------------------------------------------------------
(* The relier model: attributes, schema and the data sources of fetch *)

Null == "null"
Unset == "undefined"

\* a key that the query string, or the resume token, does not hold
Absent == "absent"

DISALLOW_CACHED_CREDENTIALS == "blank"

\* the attributes followed: the ones fetch reads, and three of those found both in the
\* resume token and in the query parameters
RelierAttrs ==
  {"allowCachedCredentials", "email", "entryPoint", "entrypoint", "resetPasswordConfirm",
   "utmSource"}

\* entryPoint is no attribute of the model until it is imported
defaults ==
  [allowCachedCredentials |-> TRUE, email |-> Null, entryPoint |-> Unset,
   entrypoint |-> Null, resetPasswordConfirm |-> TRUE, utmSource |-> Null]

RELIER_FIELDS_IN_RESUME_TOKEN == {"entrypoint", "resetPasswordConfirm", "utmSource"}

resumeTokenFields == RELIER_FIELDS_IN_RESUME_TOKEN

\* parameter name |-> the attribute it is imported as (renameTo) and its rule
QUERY_PARAMETER_SCHEMA ==
  [email |-> [attr |-> "email", vat |-> "email"],
   entryPoint |-> [attr |-> "entryPoint", vat |-> "string"],
   entrypoint |-> [attr |-> "entrypoint", vat |-> "string"],
   reset_password_confirm |-> [attr |-> "resetPasswordConfirm", vat |-> "boolean"],
   utm_source |-> [attr |-> "utmSource", vat |-> "string"]]

VERIFICATION_QUERY_PARAMETER_SCHEMA ==
  [QUERY_PARAMETER_SCHEMA EXCEPT !.email.vat = "string"]

_queryParameterSchema(isVerification) ==
  IF isVerification THEN VERIFICATION_QUERY_PARAMETER_SCHEMA ELSE QUERY_PARAMETER_SCHEMA

\* the email addresses Vat.email() lets through, of those put in the query string
VatEmails == {"a@b.com"}

\* Vat: does the rule accept the text; both email rules allow the constant
VatValidates(vat, text) ==
  CASE vat = "email" -> text \in VatEmails \cup {DISALLOW_CACHED_CREDENTIALS}
    [] vat = "boolean" -> text \in {"true", "false"}
    [] OTHER -> TRUE

\* Vat: the value a text is imported as
VatTransform(vat, text) == IF vat = "boolean" THEN text = "true" ELSE text

\* Backbone's has: the attribute is neither null nor undefined
has(attrs, a) == attrs[a] \notin {Null, Unset}

\* the resume token's own fields are set on the model, those it holds
populateFromStringifiedResumeToken(attrs, token) ==
  [a \in RelierAttrs |->
     IF a \in resumeTokenFields /\ token[a] # Absent
       THEN (IF a = "resetPasswordConfirm" THEN token[a] = "true" ELSE token[a])
       ELSE attrs[a]]

\* the parameters of the query string that their rule refuses
invalidSearchParams(params, schema) ==
  {n \in DOMAIN schema : params[n] # Absent /\ ~VatValidates(schema[n].vat, params[n])}

\* every parameter of the schema found in the query string is set on the model, under
\* the attribute's name and transformed; called when no parameter is refused
importSearchParamsUsingSchema(attrs, params, schema) ==
  [a \in RelierAttrs |->
     LET found == {n \in DOMAIN schema : schema[n].attr = a /\ params[n] # Absent} IN
     IF found # {}
       THEN LET n == CHOOSE x \in found : TRUE IN VatTransform(schema[n].vat, params[n])
       ELSE attrs[a]]

\* the two steps that end the callback of fetch
normalizeEntrypoint(attrs) ==
  IF has(attrs, "entryPoint") /\ ~has(attrs, "entrypoint")
    THEN [attrs EXCEPT !["entrypoint"] = attrs["entryPoint"]]
    ELSE attrs

disallowCachedCredentials(attrs) ==
  IF attrs["email"] = DISALLOW_CACHED_CREDENTIALS
    THEN [attrs EXCEPT !["email"] = Unset, !["allowCachedCredentials"] = FALSE]
    ELSE attrs

\* faulty variant: the query parameters are imported before the resume token is read
fetchThen_ResumeLast(r, s) ==
  LET schema == _queryParameterSchema(r.isVerification) IN
  IF invalidSearchParams(s.params, schema) # {}
    THEN [r EXCEPT !.fetch = "rejected"]
    ELSE LET imported == importSearchParamsUsingSchema(r.attributes, s.params, schema)
             resumed == populateFromStringifiedResumeToken(imported, s.resume)
         IN [r EXCEPT !.attributes = disallowCachedCredentials(normalizeEntrypoint(resumed)),
                      !.fetch = "fulfilled"]

\* the callback of fetch: the relier after it, its promise fulfilled or, when a
\* parameter is refused, rejected with the resume token's fields already set
fetchThen(r, s) ==
  LET schema == _queryParameterSchema(r.isVerification)
      resumed == populateFromStringifiedResumeToken(r.attributes, s.resume)
  IN
  IF invalidSearchParams(s.params, schema) # {}
    THEN [r EXCEPT !.attributes = resumed, !.fetch = "rejected"]
    ELSE LET imported == importSearchParamsUsingSchema(resumed, s.params, schema) IN
         [r EXCEPT !.attributes = disallowCachedCredentials(normalizeEntrypoint(imported)),
                   !.fetch = "fulfilled"]

\* new Relier(options): the defaults, nothing fetched
NewRelier(isVerification) ==
  [attributes |-> defaults, isVerification |-> isVerification, fetch |-> "none"]

\* a page address with no query string
NoSearch ==
  [resume |-> [a \in resumeTokenFields |-> Absent],
   params |-> [n \in DOMAIN QUERY_PARAMETER_SCHEMA |-> Absent]]

-----------------------------------------------------------------------------
(* Initial state: the view constructed, not yet rendered *)

HookConfigs ==
  { [isValidStart |-> vs, isValidEnd |-> ve, showValidationErrorsStart |-> ss,
     beforeSubmit |-> bs] :
      vs \in BOOLEAN, ve \in BOOLEAN, ss \in BOOLEAN, bs \in {"default", "override"} }

\* the validation hooks of the base class, or one override at a time
HookChoices ==
  { h \in HookConfigs :
      \/ h.isValidStart /\ h.isValidEnd /\ ~h.showValidationErrorsStart
      \/ ~h.isValidStart /\ h.isValidEnd /\ h.beforeSubmit = "default"
      \/ h.isValidStart /\ ~h.isValidEnd /\ ~h.showValidationErrorsStart
           /\ h.beforeSubmit = "default" }

\* the values the template renders: an empty form, the email carried over from the
\* previous screen, or a form refilled with what was typed before (values that do
\* not pass, or an email and a password that do)
InitialFields ==
  { [i \in ElIds |-> EmptyStr],
    [i \in ElIds |-> IF FormEls[i].type = "email" THEN ValidEmail ELSE EmptyStr],
    <<<<"x">>, BadEmail, ShortPassword, EmptyStr>>,
    <<EmptyStr, ValidEmail, GoodPassword, EmptyStr>> }

NotSeen == [checked |-> FALSE, halted |-> FALSE, valid |-> FALSE, enabled |-> FALSE]

NewRun ==
  [seen |-> NotSeen, beforeSubmit |-> "notStarted", submit |-> "notStarted",
   afterSubmit |-> "notStarted", shouldSubmit |-> "none", error |-> "none",
   validationShown |-> FALSE, displayed |-> <<>>, shown |-> <<>>]

\* call: whether the step was a call of validateAndSubmit, and what became of it
Did(call, signals) == [call |-> call, emitted |-> signals, calls |-> <<>>]

Init ==
  /\ hooks \in HookChoices
  /\ rendered = FALSE
  /\ fields \in InitialFields
  /\ _previousFormValues = NoValues
  /\ _isSubmitting = FALSE
  /\ _isHalted = FALSE
  /\ _isFormEnabled = TRUE
  \* an error passed from the previous screen is in the model and is rendered
  /\ _isErrorVisible \in BOOLEAN
  /\ successVisible = FALSE
  /\ tooltips = EmptyBag
  /\ invalidEls = {}
  /\ pc = "idle"
  /\ chainVal = [ok |-> TRUE, val |-> "undefined"]
  /\ run = NewRun
  /\ trace = Did("none", <<>>)
  /\ relier = NewRelier(FALSE)
  /\ search = NoSearch

-----------------------------------------------------------------------------
(* Rendering, user input and the change / input / keyup events *)

\* faulty variant: the form is enabled whether it is valid or not
enableSubmitIfValid_AlwaysEnables ==
  IF isSubmitting \/ isHalted
    THEN UNCHANGED <<_isErrorVisible, successVisible, _isFormEnabled>>
    ELSE /\ _isErrorVisible' = FALSE
         /\ successVisible' = FALSE
         /\ _isFormEnabled' = TRUE

\* faulty variant: the handler does not bail out on a halted view
enableSubmitIfValid_NoHaltedCheck ==
  IF isSubmitting
    THEN UNCHANGED <<_isErrorVisible, successVisible, _isFormEnabled>>
    ELSE /\ _isErrorVisible' = FALSE
         /\ successVisible' = FALSE
         /\ _isFormEnabled' = isValid'

\* faulty variant: the handler does not bail out while a submission is in flight
enableSubmitIfValid_NoSubmittingCheck ==
  IF isHalted
    THEN UNCHANGED <<_isErrorVisible, successVisible, _isFormEnabled>>
    ELSE /\ _isErrorVisible' = FALSE
         /\ successVisible' = FALSE
         /\ _isFormEnabled' = isValid'

\* enableSubmitIfValid, as the change of the three things it touches; the form is
\* validated as the DOM stands when the handler runs (fields')
enableSubmitIfValid ==
  IF isSubmitting \/ isHalted
    THEN UNCHANGED <<_isErrorVisible, successVisible, _isFormEnabled>>
    ELSE /\ _isErrorVisible' = FALSE
         /\ successVisible' = FALSE
         /\ _isFormEnabled' = isValid'

\* detectFormValueChanges against the DOM as it stands when the handler runs
detectedChanges ==
  IF _previousFormValues # getFormValues' THEN getFormValues' ELSE NoValues

\* updateFormValueChanges: the baseline follows a detected change
updateFormValueChanges ==
  _previousFormValues' =
    IF detectedChanges # NoValues THEN detectedChanges ELSE _previousFormValues

\* this.model.has('error'), asked in afterRender: the model's error is rendered
modelHasError == _isErrorVisible

\* faulty variant: the baseline is not seeded
AfterRender_NoSeed ==
  /\ ~rendered
  /\ rendered' = TRUE
  /\ UNCHANGED <<relier, search, hooks, fields, _previousFormValues>>
  /\ IF ~modelHasError
       THEN enableSubmitIfValid
       ELSE UNCHANGED <<_isErrorVisible, successVisible, _isFormEnabled>>
  /\ trace' = Did("none", <<>>)
  /\ UNCHANGED <<_isSubmitting, _isHalted, tooltips, invalidEls, pc, chainVal, run>>

AfterRender ==
  /\ ~rendered
  /\ rendered' = TRUE
  /\ UNCHANGED <<relier, search, hooks, fields>>
  /\ updateFormValueChanges
  /\ IF ~modelHasError
       THEN enableSubmitIfValid
       ELSE UNCHANGED <<_isErrorVisible, successVisible, _isFormEnabled>>
  /\ trace' = Did("none", <<>>)
  /\ UNCHANGED <<_isSubmitting, _isHalted, tooltips, invalidEls, pc, chainVal, run>>

\* faulty variant: the handler runs on every event
ifFormValuesChanged_Always ==
  /\ updateFormValueChanges
  /\ enableSubmitIfValid

\* 'change form' / 'input form' / 'keyup form'
ifFormValuesChanged ==
  /\ updateFormValueChanges
  /\ IF detectedChanges # NoValues
       THEN enableSubmitIfValid
       ELSE UNCHANGED <<_isErrorVisible, successVisible, _isFormEnabled>>

\* the user types into an element and the input event this fires is handled;
\* halt() has set `disabled` on every input
UserEdit(i, v) ==
  /\ rendered
  /\ ~isHalted
  /\ v # fields[i]
  /\ fields' = [fields EXCEPT ![i] = v]
  /\ UNCHANGED <<relier, search, hooks>>
  /\ ifFormValuesChanged
  /\ trace' = Did("none", <<>>)
  /\ UNCHANGED <<rendered, _isSubmitting, _isHalted, tooltips, invalidEls,
                 pc, chainVal, run>>

\* an event on the form with no edit behind it (the keyup of the previous screen's
\* enter key, a change event on blur)
InputEvent ==
  /\ rendered
  /\ UNCHANGED <<relier, search, hooks, fields>>
  /\ ifFormValuesChanged
  /\ trace' = Did("none", <<>>)
  /\ UNCHANGED <<rendered, _isSubmitting, _isHalted, tooltips, invalidEls,
                 pc, chainVal, run>>

-----------------------------------------------------------------------------
(* Submission pipeline *)

Ok(v) == [ok |-> TRUE, val |-> v]

Thrown(e) == [ok |-> FALSE, val |-> e]

\* views/decorators/allow_only_one_submit: a call made while a submission is
\* in flight is dropped; otherwise the flag is raised and the handler runs
allowOnlyOneSubmit(handler) ==
  IF isSubmitting
    THEN /\ UNCHANGED <<relier, search, progVars>>
         /\ trace' = Did("dropped", <<>>)
    ELSE /\ _isSubmitting' = TRUE
         /\ handler

\* the synchronous part of validateAndSubmit: the chain p().then(...) is queued
validateAndSubmitStart ==
  /\ trace' = Did("accepted", << <<"submitStart">> >>)
  /\ pc' = "entry"
  /\ run' = NewRun
  /\ UNCHANGED <<relier, search, hooks, rendered, fields, _previousFormValues, _isHalted,
                 _isFormEnabled, _isErrorVisible, successVisible, tooltips, invalidEls,
                 chainVal>>

ValidateAndSubmit ==
  /\ rendered
  /\ allowOnlyOneSubmit(validateAndSubmitStart)

\* faulty variant: the validity check is left out
entryBranch_NoValidityCheck ==
  IF isHalted THEN "halted"
  ELSE IF ~isFormEnabled THEN "disabled"
  ELSE "submit"

\* faulty variant: the enablement check is made before the validity check
entryBranch_EnabledFirst ==
  IF isHalted THEN "halted"
  ELSE IF ~isFormEnabled THEN "disabled"
  ELSE IF ~isValid THEN "invalid"
  ELSE "submit"

\* faulty variant: the enablement check is left out
entryBranch_NoEnabledCheck ==
  IF isHalted THEN "halted"
  ELSE IF ~isValid THEN "invalid"
  ELSE "submit"

\* faulty variant: the halted check is left out
entryBranch_NoHaltedCheck ==
  IF ~isValid THEN "invalid"
  ELSE IF ~isFormEnabled THEN "disabled"
  ELSE "submit"

\* the checks of the chain's first callback, in the order the code makes them
entryBranch ==
  IF isHalted THEN "halted"
  ELSE IF ~isValid THEN "invalid"
  ELSE IF ~isFormEnabled THEN "disabled"
  ELSE "submit"

\* the first callback of validateAndSubmit's chain
EntryCheck ==
  /\ pc = "entry"
  /\ LET seen == [checked |-> TRUE, halted |-> isHalted, valid |-> isValid,
                  enabled |-> isFormEnabled]
         shown == showValidationErrors
     IN
     CASE entryBranch = "halted" ->
            /\ pc' = "settle"
            /\ chainVal' = Ok("undefined")
            /\ run' = [run EXCEPT !.seen = seen]
            /\ UNCHANGED <<_isErrorVisible, tooltips>>
       [] entryBranch = "invalid" ->
            \* throw self.showValidationErrors(), which starts with hideError()
            /\ shown.el # 0 => BagCardinality(tooltips) < MaxTooltips
            /\ _isErrorVisible' = FALSE
            /\ tooltips' = IF shown.el # 0 THEN showValidationError(shown) ELSE tooltips
            /\ pc' = "settle"
            /\ chainVal' = Thrown(shown.ret)
            /\ run' = [run EXCEPT !.seen = seen, !.validationShown = TRUE,
                                  !.shown = IF shown.el # 0 THEN Append(@, shown.ret) ELSE @]
       [] entryBranch = "disabled" ->
            /\ pc' = "settle"
            /\ chainVal' = Ok("undefined")
            /\ run' = [run EXCEPT !.seen = seen]
            /\ UNCHANGED <<_isErrorVisible, tooltips>>
       [] entryBranch = "submit" ->
            \* return self._submitForm()
            /\ pc' = "callBeforeSubmit"
            /\ run' = [run EXCEPT !.seen = seen]
            /\ UNCHANGED <<_isErrorVisible, tooltips, chainVal>>
  /\ trace' = Did("none", <<>>)
  /\ UNCHANGED <<relier, search, hooks, rendered, fields, _previousFormValues, _isSubmitting, _isHalted,
                 _isFormEnabled, successVisible, invalidEls>>

\* faulty variant: submit is started without waiting for beforeSubmit's promise
CallBeforeSubmit_NoWait ==
  /\ pc = "callBeforeSubmit"
  /\ pc' = "submit"
  /\ run' = [run EXCEPT !.beforeSubmit = "running", !.submit = "running"]
  /\ _isFormEnabled' = IF hooks.beforeSubmit = "default" THEN FALSE ELSE _isFormEnabled
  /\ trace' = Did("none", <<>>)
  /\ UNCHANGED <<relier, search, hooks, rendered, fields, _previousFormValues, _isSubmitting, _isHalted,
                 _isErrorVisible, successVisible, tooltips, invalidEls, chainVal>>

\* faulty variant: the default beforeSubmit does not disable the form
CallBeforeSubmit_NoDisable ==
  /\ pc = "callBeforeSubmit"
  /\ pc' = "beforeSubmit"
  /\ run' = [run EXCEPT !.beforeSubmit = "running"]
  /\ trace' = Did("none", <<>>)
  /\ UNCHANGED <<relier, search, hooks, rendered, fields, _previousFormValues, _isSubmitting, _isHalted,
                 _isFormEnabled, _isErrorVisible, successVisible, tooltips, invalidEls,
                 chainVal>>

\* _submitForm: p().then(_.bind(self.beforeSubmit, self))
CallBeforeSubmit ==
  /\ pc = "callBeforeSubmit"
  /\ pc' = "beforeSubmit"
  /\ run' = [run EXCEPT !.beforeSubmit = "running"]
  \* the default beforeSubmit is disableForm()
  /\ _isFormEnabled' = IF hooks.beforeSubmit = "default" THEN FALSE ELSE _isFormEnabled
  /\ trace' = Did("none", <<>>)
  /\ UNCHANGED <<relier, search, hooks, rendered, fields, _previousFormValues, _isSubmitting, _isHalted,
                 _isErrorVisible, successVisible, tooltips, invalidEls, chainVal>>

\* what beforeSubmit's promise settles with
BeforeSubmitResults ==
  IF hooks.beforeSubmit = "default"
    THEN {Ok("undefined")}
    ELSE {Ok("undefined"), Ok("false"), Ok("true")} \cup {Thrown(e) : e \in Errors}

SettleBeforeSubmit(r) ==
  /\ pc = "beforeSubmit"
  /\ chainVal' = r
  /\ run' = [run EXCEPT !.beforeSubmit = IF r.ok THEN "resolved" ELSE "rejected",
                        !.shouldSubmit = IF r.ok THEN r.val ELSE @,
                        !.error = IF r.ok THEN @ ELSE r.val]
  /\ pc' = IF r.ok THEN "gate" ELSE "onError"
  /\ trace' = Did("none", <<>>)
  /\ UNCHANGED <<relier, search, hooks, rendered, fields, _previousFormValues, _isSubmitting, _isHalted,
                 _isFormEnabled, _isErrorVisible, successVisible, tooltips, invalidEls>>

\* faulty variant: submission is opt in, `if (shouldSubmit)`
Gate_TruthyOnly ==
  /\ pc = "gate"
  /\ IF chainVal.val = "true"
       THEN /\ pc' = "submit"
            /\ run' = [run EXCEPT !.submit = "running"]
            /\ UNCHANGED chainVal
       ELSE /\ pc' = "callAfterSubmit"
            /\ chainVal' = Ok("undefined")
            /\ UNCHANGED run
  /\ trace' = Did("none", <<>>)
  /\ UNCHANGED <<relier, search, hooks, rendered, fields, _previousFormValues, _isSubmitting, _isHalted,
                 _isFormEnabled, _isErrorVisible, successVisible, tooltips, invalidEls>>

\* .then(function (shouldSubmit) { if (shouldSubmit !== false) return self.submit(); })
Gate ==
  /\ pc = "gate"
  /\ IF chainVal.val # "false"
       THEN /\ pc' = "submit"
            /\ run' = [run EXCEPT !.submit = "running"]
            /\ UNCHANGED chainVal
       ELSE /\ pc' = "callAfterSubmit"
            /\ chainVal' = Ok("undefined")
            /\ UNCHANGED run
  /\ trace' = Did("none", <<>>)
  /\ UNCHANGED <<relier, search, hooks, rendered, fields, _previousFormValues, _isSubmitting, _isHalted,
                 _isFormEnabled, _isErrorVisible, successVisible, tooltips, invalidEls>>

\* what the subclass's submit settles with: nothing, { halt: true }, another object,
\* or an error
SubmitResults == {Ok("undefined"), Ok("halt"), Ok("obj")} \cup {Thrown(e) : e \in Errors}

\* submit may show an error or a success message itself and still resolve
SubmitDisplays == {"nothing", "error", "success"}

SettleSubmit(r, d) ==
  /\ pc = "submit"
  /\ d # "nothing" => r.ok
  /\ chainVal' = r
  /\ run' = [run EXCEPT !.submit = IF r.ok THEN "resolved" ELSE "rejected",
                        !.error = IF r.ok THEN @ ELSE r.val]
  /\ pc' = IF r.ok THEN "callAfterSubmit" ELSE "onError"
  /\ _isErrorVisible' = CASE d = "error" -> TRUE
                          [] d = "success" -> FALSE
                          [] OTHER -> _isErrorVisible
  /\ successVisible' = CASE d = "error" -> FALSE
                         [] d = "success" -> TRUE
                         [] OTHER -> successVisible
  /\ trace' = Did("none", <<>>)
  /\ UNCHANGED <<relier, search, hooks, rendered, fields, _previousFormValues, _isSubmitting, _isHalted,
                 _isFormEnabled, tooltips, invalidEls>>

\* faulty variant: the error is displayed and not thrown again
OnError_Swallows ==
  /\ pc = "onError"
  /\ _isErrorVisible' = TRUE
  /\ successVisible' = FALSE
  /\ run' = [run EXCEPT !.displayed = Append(@, chainVal.val)]
  /\ pc' = "callAfterSubmit"
  /\ chainVal' = Ok("undefined")
  /\ trace' = Did("none", <<>>)
  /\ UNCHANGED <<relier, search, hooks, rendered, fields, _previousFormValues, _isSubmitting, _isHalted,
                 _isFormEnabled, tooltips, invalidEls>>

\* faulty variant: the failed submission is started again after its error is displayed
OnError_Retries ==
  /\ pc = "onError"
  /\ _isErrorVisible' = TRUE
  /\ successVisible' = FALSE
  /\ run' = [NewRun EXCEPT !.seen = run.seen]
  /\ pc' = "callBeforeSubmit"
  /\ chainVal' = Ok("undefined")
  /\ trace' = Did("none", <<>>)
  /\ UNCHANGED <<relier, search, hooks, rendered, fields, _previousFormValues, _isSubmitting, _isHalted,
                 _isFormEnabled, tooltips, invalidEls>>

\* .then(null, function (err) { self.displayError(err); throw err; })
OnError ==
  /\ pc = "onError"
  \* self.displayError(err)
  /\ _isErrorVisible' = TRUE
  /\ successVisible' = FALSE
  /\ run' = [run EXCEPT !.displayed = Append(@, chainVal.val)]
  /\ pc' = "settle"
  /\ trace' = Did("none", <<>>)
  /\ UNCHANGED <<relier, search, hooks, rendered, fields, _previousFormValues, _isSubmitting, _isHalted,
                 _isFormEnabled, tooltips, invalidEls, chainVal>>

\* .then(_.bind(self.afterSubmit, self)): afterSubmit queues its own callback
CallAfterSubmit ==
  /\ pc = "callAfterSubmit"
  /\ pc' = "afterSubmit"
  /\ run' = [run EXCEPT !.afterSubmit = "running"]
  /\ trace' = Did("none", <<>>)
  /\ UNCHANGED <<relier, search, hooks, rendered, fields, _previousFormValues, _isSubmitting, _isHalted,
                 _isFormEnabled, _isErrorVisible, successVisible, tooltips, invalidEls,
                 chainVal>>

\* faulty variant: the form is enabled again whether or not an error is visible
afterSubmit_IgnoresError(result) ==
  IF result = "halt" THEN
    /\ _isHalted' = TRUE
    /\ UNCHANGED _isFormEnabled
  ELSE
    /\ _isFormEnabled' = TRUE
    /\ UNCHANGED _isHalted

\* the callback inside the default afterSubmit
afterSubmit(result) ==
  IF result = "halt" THEN
    \* self.halt()
    /\ _isHalted' = TRUE
    /\ UNCHANGED _isFormEnabled
  ELSE IF ~isErrorVisible THEN
    \* self.enableForm()
    /\ _isFormEnabled' = TRUE
    /\ UNCHANGED _isHalted
  ELSE UNCHANGED <<_isHalted, _isFormEnabled>>

AfterSubmitBody ==
  /\ pc = "afterSubmit"
  /\ afterSubmit(chainVal.val)
  /\ run' = [run EXCEPT !.afterSubmit = "resolved"]
  /\ pc' = "settle"
  /\ trace' = Did("none", <<>>)
  /\ UNCHANGED <<relier, search, hooks, rendered, fields, _previousFormValues, _isSubmitting,
                 _isErrorVisible, successVisible, tooltips, invalidEls, chainVal>>

\* the decorator's completion: the caller's promise settles with chainVal and the
\* flag is lowered
Settle ==
  /\ pc = "settle"
  /\ _isSubmitting' = FALSE
  /\ chainVal' = Ok("undefined")
  /\ run' = NewRun
  /\ pc' = "idle"
  /\ trace' = Did("none", <<>>)
  /\ UNCHANGED <<relier, search, hooks, rendered, fields, _previousFormValues, _isHalted,
                 _isFormEnabled, _isErrorVisible, successVisible, tooltips, invalidEls>>

-----------------------------------------------------------------------------
(* Tooltips *)

TooltipStates == {"rendering", "rendered", "destroyed"}

\* a tooltip: the element it is anchored to, and where it is in its life;
\* "destroyed" is destroyed with the callback of render() still to come
Tooltips == {[el |-> i, state |-> st] : i \in ElIds, st \in TooltipStates}

Became(t, st) == SetToBag({[t EXCEPT !.state = st]})

\* faulty variant: a tooltip that is displayed leaves the others where they are
displaced_None(t) == {}

\* views/tooltip shows one tooltip at a time: the tooltips destroyed when t is displayed
displaced(t) ==
  IF t.state = "rendering"
    THEN {d \in BagToSet(tooltips) : d.state = "rendered"}
    ELSE {}

\* the destroyed handlers of the displaced tooltips, as signals
removedSignals(ds) ==
  IF ds = {} THEN <<>>
  ELSE LET d == CHOOSE x \in ds : TRUE IN << <<"validation_error_removed", d.el>> >>

\* tooltip.render().then(...): the tooltip is displayed, the element is marked and
\* validation_error triggered
TooltipRendered(t) ==
  /\ BagIn(t, tooltips)
  /\ t.state \in {"rendering", "destroyed"}
  /\ LET gone == displaced(t)
         kept == [d \in (DOMAIN tooltips) \ gone |-> tooltips[d]]
     IN
     /\ invalidEls' = (invalidEls \ {d.el : d \in gone}) \cup {t.el}
     /\ tooltips' = IF t.state = "rendering"
                      THEN (kept (-) SetToBag({t})) (+) Became(t, "rendered")
                      ELSE kept (-) SetToBag({t})
     /\ trace' = Did("none", removedSignals(gone) \o << <<"validation_error", t.el>> >>)
  /\ UNCHANGED <<relier, search, hooks, rendered, fields, _previousFormValues, _isSubmitting, _isHalted,
                 _isFormEnabled, _isErrorVisible, successVisible, pc, chainVal, run>>

\* tooltip.on('destroyed', ...)
TooltipDestroyed(t) ==
  /\ BagIn(t, tooltips)
  /\ t.state \in {"rendering", "rendered"}
  /\ invalidEls' = invalidEls \ {t.el}
  /\ tooltips' = IF t.state = "rendering"
                   THEN (tooltips (-) SetToBag({t})) (+) Became(t, "destroyed")
                   ELSE tooltips (-) SetToBag({t})
  /\ trace' = Did("none", << <<"validation_error_removed", t.el>> >>)
  /\ UNCHANGED <<relier, search, hooks, rendered, fields, _previousFormValues, _isSubmitting, _isHalted,
                 _isFormEnabled, _isErrorVisible, successVisible, pc, chainVal, run>>

-----------------------------------------------------------------------------

Next ==
  \/ AfterRender
  \/ \E i \in ElIds : \E v \in EditValues(i) : UserEdit(i, v)
  \/ InputEvent
  \/ ValidateAndSubmit
  \/ EntryCheck
  \/ CallBeforeSubmit
  \/ \E r \in BeforeSubmitResults : SettleBeforeSubmit(r)
  \/ Gate
  \/ \E r \in SubmitResults : \E d \in SubmitDisplays : SettleSubmit(r, d)
  \/ OnError
  \/ CallAfterSubmit
  \/ AfterSubmitBody
  \/ Settle
  \/ \E t \in Tooltips : TooltipRendered(t)
  \/ \E t \in Tooltips : TooltipDestroyed(t)

Spec == Init /\ [][Next]_vars

\* a screen that no error is passed to
InitFresh == Init /\ ~_isErrorVisible

SpecFresh == InitFresh /\ [][Next]_vars

-----------------------------------------------------------------------------
(* Scheduling: the event loop runs every queued promise callback, every hook's *)
(* promise settles, and a tooltip is rendered and, in the end, destroyed.      *)

\* the callbacks of a pending submission
ChainStep ==
  \/ EntryCheck
  \/ CallBeforeSubmit
  \/ \E r \in BeforeSubmitResults : SettleBeforeSubmit(r)
  \/ Gate
  \/ \E r \in SubmitResults : \E d \in SubmitDisplays : SettleSubmit(r, d)
  \/ OnError
  \/ CallAfterSubmit
  \/ AfterSubmitBody
  \/ Settle

\* the callbacks of a tooltip
TooltipStep ==
  \E t \in Tooltips : TooltipRendered(t) \/ TooltipDestroyed(t)

\* a returning user: the email and the password are filled in, the name is to be
\* typed, and no error is carried over
InitLive ==
  /\ Init
  /\ fields = <<EmptyStr, ValidEmail, GoodPassword, EmptyStr>>
  /\ ~_isErrorVisible

\* the elements that user types into
LiveEls == {i \in ElIds : InScope(i) /\ getElementType(i) # "password"}

NextLive ==
  \/ AfterRender
  \/ \E i \in LiveEls : \E v \in EditValues(i) : UserEdit(i, v)
  \/ InputEvent
  \/ ValidateAndSubmit
  \/ ChainStep
  \/ TooltipStep

SpecLive == InitLive /\ [][NextLive]_vars /\ WF_vars(ChainStep) /\ WF_vars(TooltipStep)

-----------------------------------------------------------------------------
(* The view's public methods, called directly by a descendent view *)

enableForm == _isFormEnabled' = TRUE

EnableFormCall ==
  /\ rendered
  /\ enableForm
  /\ trace' = Did("none", <<>>)
  /\ UNCHANGED <<relier, search, hooks, rendered, fields, _previousFormValues, _isSubmitting, _isHalted,
                 _isErrorVisible, successVisible, tooltips, invalidEls, pc, chainVal, run>>

EnableSubmitIfValidCall ==
  /\ rendered
  /\ UNCHANGED <<relier, search, hooks, fields>>
  /\ enableSubmitIfValid
  /\ trace' = Did("enableSubmitIfValid", <<>>)
  /\ UNCHANGED <<rendered, _previousFormValues, _isSubmitting, _isHalted, tooltips,
                 invalidEls, pc, chainVal, run>>

NextApi ==
  \/ Next
  \/ EnableFormCall
  \/ EnableSubmitIfValidCall

SpecApi == Init /\ [][NextApi]_vars

-----------------------------------------------------------------------------
(* The validation and change-detection methods, called one at a time on a   *)
(* form holding any of the values below                                       *)

Blank == <<" ">>

\* the values element i can hold
FormValues(i) ==
  CASE FormEls[i].type = "email" -> {EmptyStr, Blank, ValidEmail, PaddedEmail, BadEmail}
    [] FormEls[i].passwordClass -> {EmptyStr, ShortPassword, GoodPassword}
    [] OTHER -> {EmptyStr, <<"x">>}

FormFields ==
  { f \in [ElIds -> UNION {FormValues(i) : i \in ElIds}] :
      \A i \in ElIds : f[i] \in FormValues(i) }

\* the validation hooks of the base class, or one of them overridden
FormHooks ==
  { h \in HookConfigs :
      /\ h.beforeSubmit = "default"
      /\ Cardinality({k \in {"isValidStart", "isValidEnd"} : ~h[k]}
                       \cup {k \in {"showValidationErrorsStart"} : h[k]}) <= 1 }

InitForm ==
  /\ hooks \in FormHooks
  /\ rendered = FALSE
  /\ fields \in FormFields
  /\ _previousFormValues = NoValues
  /\ _isSubmitting = FALSE
  /\ _isHalted = FALSE
  /\ _isFormEnabled = TRUE
  /\ _isErrorVisible \in BOOLEAN
  /\ successVisible = FALSE
  /\ tooltips = EmptyBag
  /\ invalidEls = {}
  /\ pc = "idle"
  /\ chainVal = Ok("undefined")
  /\ run = NewRun
  /\ trace = Did("none", <<>>)
  /\ relier = NewRelier(FALSE)
  /\ search = NoSearch

\* what a method returned to its caller
Returned(v) == << <<"return", v>> >>

\* a value put into an element with no event fired (the browser's autofill of the
\* email, a script's val())
SetValue(i, v) ==
  /\ FormEls[i].type = "email"
  /\ v # fields[i]
  /\ fields' = [fields EXCEPT ![i] = v]
  /\ trace' = Did("none", <<>>)
  /\ UNCHANGED <<relier, search, hooks, rendered, _previousFormValues, _isSubmitting, _isHalted,
                 _isFormEnabled, _isErrorVisible, successVisible, tooltips, invalidEls,
                 pc, chainVal, run>>

\* faulty variant: isValid displays what it finds
IsValidCall_HidesError ==
  /\ _isErrorVisible' = FALSE
  /\ trace' = Did("isValid", Returned(isValid))
  /\ UNCHANGED <<relier, search, hooks, rendered, fields, _previousFormValues, _isSubmitting, _isHalted,
                 _isFormEnabled, successVisible, tooltips, invalidEls, pc, chainVal, run>>

\* isValid(): every step of it reads, none writes
IsValidCall ==
  /\ trace' = Did("isValid", Returned(isValid))
  /\ UNCHANGED <<relier, search, progVars>>

\* showValidationErrors(): hideError(), then at most one tooltip; showValidationError
\* logs the error before it makes the tooltip
ShowValidationErrorsUpTo(max) ==
  /\ LET shown == showValidationErrors IN
     /\ shown.el # 0 => BagCardinality(tooltips) < max
     /\ _isErrorVisible' = FALSE
     /\ tooltips' = IF shown.el # 0 THEN showValidationError(shown) ELSE tooltips
     /\ trace' = [Did("showValidationErrors",
                       (IF shown.el # 0 THEN << <<"logError", shown.kind>> >> ELSE <<>>)
                         \o Returned(shown.ret))
                    EXCEPT !.calls = showValidationErrorsCalls]
  /\ UNCHANGED <<relier, search, hooks, rendered, fields, _previousFormValues, _isSubmitting, _isHalted,
                 _isFormEnabled, successVisible, invalidEls, pc, chainVal, run>>

ShowValidationErrorsCall == ShowValidationErrorsUpTo(MaxTooltips)

DetectFormValueChangesCall ==
  /\ trace' = Did("detectFormValueChanges", Returned(detectFormValueChanges))
  /\ UNCHANGED <<relier, search, progVars>>

UpdateFormValueChangesCall ==
  /\ UNCHANGED <<relier, search, hooks, fields>>
  /\ updateFormValueChanges
  /\ trace' = Did("updateFormValueChanges", Returned(detectFormValueChanges))
  /\ UNCHANGED <<rendered, _isSubmitting, _isHalted, _isFormEnabled, _isErrorVisible,
                 successVisible, tooltips, invalidEls, pc, chainVal, run>>

NextForm ==
  \/ AfterRender
  \/ \E i \in ElIds : \E v \in FormValues(i) : UserEdit(i, v)
  \/ \E i \in ElIds : \E v \in FormValues(i) : SetValue(i, v)
  \/ InputEvent
  \/ IsValidCall
  \/ ShowValidationErrorsCall
  \/ DetectFormValueChangesCall
  \/ UpdateFormValueChangesCall
  \/ TooltipStep

SpecForm == InitForm /\ [][NextForm]_vars

-----------------------------------------------------------------------------
(* Submissions, edits and direct calls of showValidationErrors, with a second *)
(* tooltip made while the first is still there                                *)

\* the validation hooks are the base class's, and the form is refilled with a name,
\* and an email and a password that do not pass
InitTips ==
  /\ Init
  /\ hooks.isValidStart /\ hooks.isValidEnd
  /\ fields = <<<<"x">>, BadEmail, ShortPassword, EmptyStr>>
  /\ ~_isErrorVisible

\* the elements that get a tooltip
TipEls == {i \in ElIds : InScope(i) /\ getElementType(i) \in {"email", "password"}}

NextTips ==
  \/ AfterRender
  \/ \E i \in TipEls : \E v \in EditValues(i) : UserEdit(i, v)
  \/ InputEvent
  \/ ValidateAndSubmit
  \/ ChainStep
  \/ ShowValidationErrorsUpTo(MaxShown)
  \/ TooltipStep

SpecTips == InitTips /\ [][NextTips]_vars

-----------------------------------------------------------------------------
(* The relier hydrated at startup from any of the page addresses below *)

ResumeTokens ==
  [entrypoint : {Absent, "resume-entry"},
   resetPasswordConfirm : {Absent, "false"},
   utmSource : {Absent, "resume-source"}]

SearchParams ==
  [email : {Absent, DISALLOW_CACHED_CREDENTIALS, "a@b.com", "not-an-email"},
   entryPoint : {Absent, "Query-Entry"},
   entrypoint : {Absent, "query-entry"},
   reset_password_confirm : {Absent, "true", "false"},
   utm_source : {Absent, "query-source"}]

InitRelier ==
  /\ hooks = [isValidStart |-> TRUE, isValidEnd |-> TRUE,
              showValidationErrorsStart |-> FALSE, beforeSubmit |-> "default"]
  /\ rendered = FALSE
  /\ fields = <<EmptyStr, EmptyStr, EmptyStr, EmptyStr>>
  /\ _previousFormValues = NoValues
  /\ _isSubmitting = FALSE
  /\ _isHalted = FALSE
  /\ _isFormEnabled = TRUE
  /\ _isErrorVisible = FALSE
  /\ successVisible = FALSE
  /\ tooltips = EmptyBag
  /\ invalidEls = {}
  /\ pc = "idle"
  /\ chainVal = Ok("undefined")
  /\ run = NewRun
  /\ trace = Did("none", <<>>)
  /\ \E v \in BOOLEAN : relier = NewRelier(v)
  /\ search \in [resume : ResumeTokens, params : SearchParams]

\* fetch(): the promise is made, its callback is queued
Fetch ==
  /\ relier.fetch # "pending"
  /\ relier' = [relier EXCEPT !.fetch = "pending"]
  /\ trace' = Did("none", <<>>)
  /\ UNCHANGED <<search, progVars>>

FetchThen ==
  /\ relier.fetch = "pending"
  /\ relier' = fetchThen(relier, search)
  /\ trace' = Did("none", <<>>)
  /\ UNCHANGED <<search, progVars>>

AllowCachedCredentialsCall ==
  /\ trace' = Did("allowCachedCredentials", Returned(relier.attributes["allowCachedCredentials"]))
  /\ UNCHANGED <<relier, search, progVars>>

NextRelier ==
  \/ Fetch
  \/ FetchThen
  \/ AllowCachedCredentialsCall

SpecRelier == InitRelier /\ [][NextRelier]_vars

-----------------------------------------------------------------------------
(* Properties of the submission pipeline *)

Stages == {"beforeSubmit", "submit", "afterSubmit"}

NoHookInvoked(r) == \A st \in Stages : r[st] = "notStarted"

\* a step that is a call of validateAndSubmit
IsCall == trace'.call \in {"accepted", "dropped"}

\* a step of the pending chain, leaving position p
Leaves(p) == pc = p /\ pc' # p

\* C1: a call of validateAndSubmit made while a submission is in flight is dropped:
\* it triggers no signal, invokes no hook and changes no state of the view
C1_SingleFlight ==
  [][ (_isSubmitting /\ IsCall) =>
        /\ trace'.call = "dropped"
        /\ trace'.emitted = <<>>
        /\ UNCHANGED progVars ]_vars

C1_Witness == trace.call = "dropped" /\ _isSubmitting /\ pc = "submit"

\* C2: submit is invoked only in a run whose entry check found the view not halted,
\* valid and enabled, and whose beforeSubmit resolved to something other than false
C2_SubmitOnlyAfterChecks ==
  run.submit # "notStarted" =>
    /\ run.seen = [checked |-> TRUE, halted |-> FALSE, valid |-> TRUE, enabled |-> TRUE]
    /\ run.beforeSubmit = "resolved"
    /\ run.shouldSubmit \in {"undefined", "true"}

C2_Witness == pc = "submit" /\ run.submit = "running" /\ run.shouldSubmit = "true"

\* C3: the stages of one submission run one after the other: submit starts only
\* after beforeSubmit resolved, afterSubmit only after submit resolved (or was
\* skipped because beforeSubmit resolved to false), and no two are in progress at once
C3_StagesInSequence ==
  /\ Cardinality({st \in Stages : run[st] = "running"}) <= 1
  /\ run.submit # "notStarted" => run.beforeSubmit = "resolved"
  /\ run.afterSubmit # "notStarted" =>
       /\ run.beforeSubmit = "resolved"
       /\ \/ run.submit = "resolved"
          \/ run.submit = "notStarted" /\ run.shouldSubmit = "false"

C3_Witness == run.afterSubmit = "running" /\ run.submit = "resolved"

\* C4: when beforeSubmit or submit fails, the error is given to displayError once,
\* afterSubmit is not invoked, and the caller's promise rejects with that error
C4_ErrorDisplayedAndRethrown ==
  run.error # "none" =>
    /\ run.afterSubmit = "notStarted"
    /\ pc = "onError" => run.displayed = <<>> /\ chainVal = Thrown(run.error)
    /\ pc = "settle" =>
         /\ run.displayed = <<run.error>>
         /\ chainVal = Thrown(run.error)
         /\ _isErrorVisible
    /\ pc \in {"onError", "settle"}

C4_Witness ==
  pc = "settle" /\ run.submit = "rejected" /\ run.error = "E2" /\ run.displayed = <<"E2">>

\* C5, as stated: whenever the entry check finds a non-halted form invalid, exactly
\* one validation message is displayed and the promise rejects with that message,
\* whichever field or hook failed
C5_AlwaysOneMessage ==
  (pc = "settle" /\ run.seen.checked /\ ~run.seen.halted /\ ~run.seen.valid) =>
    /\ ~chainVal.ok
    /\ Len(run.shown) = 1
    /\ chainVal.val = run.shown[1]

\* the first invalid field is one showValidationErrors displays a message for
NamesAField ==
  /\ ~showValidationErrorsStart
  /\ FirstInvalidFrom(1) # 0
  /\ getElementType(FirstInvalidFrom(1)) \in {"email", "password"}

ValidationMessages ==
  {toMessage(k) : k \in {"INVALID_EMAIL", "EMAIL_REQUIRED", "PASSWORD_TOO_SHORT",
                         "PASSWORD_REQUIRED"}}

\* C5, amended: whenever the entry check finds a non-halted form invalid, the promise
\* rejects with what showValidationErrors returned: if showValidationErrorsStart
\* returned falsy and the first invalid field is an email or a password field, one
\* tooltip is made on that field and the promise rejects with its message; otherwise
\* (a generic field, a failing isValidStart / isValidEnd, a truthy
\* showValidationErrorsStart) no message is displayed and it rejects with undefined
C5_MessageOnlyForEmailAndPassword ==
  [][ (Leaves("entry") /\ ~isHalted /\ ~isValid) =>
        /\ pc' = "settle"
        /\ ~chainVal'.ok
        /\ run'.validationShown
        /\ IF NamesAField
             THEN /\ chainVal'.val \in ValidationMessages
                  /\ run'.shown = <<chainVal'.val>>
                  /\ tooltips' = tooltips (+) SetToBag({[el |-> FirstInvalidFrom(1),
                                                         state |-> "rendering"]})
             ELSE /\ chainVal'.val = "undefined"
                  /\ run'.shown = <<>>
                  /\ tooltips' = tooltips ]_vars

C5_Witness ==
  /\ pc = "settle"
  /\ ~run.seen.valid
  /\ chainVal = Thrown(toMessage("EMAIL_REQUIRED"))
  /\ run.shown = <<toMessage("EMAIL_REQUIRED")>>
  /\ BagCardinality(tooltips) = 1

\* C6: validity is checked before enablement: an invalid form that is not halted has
\* its validation errors shown and its promise rejected whether it is enabled or
\* not, and the quiet return for a disabled form is taken only by a valid form
C6_ValidityBeforeEnablement ==
  [][ Leaves("entry") =>
        /\ (~isHalted /\ ~isValid) =>
             pc' = "settle" /\ ~chainVal'.ok /\ run'.validationShown /\ ~_isErrorVisible'
        /\ (~isHalted /\ pc' = "settle" /\ chainVal'.ok) =>
             isValid /\ ~isFormEnabled /\ ~run'.validationShown ]_vars

C6_Witness ==
  /\ pc = "settle"
  /\ run.seen = [checked |-> TRUE, halted |-> FALSE, valid |-> FALSE, enabled |-> FALSE]
  /\ ~chainVal.ok
  /\ run.validationShown

\* C7: a valid, disabled form that is not halted: the promise resolves, no hook is
\* invoked, no error is displayed, and enablement and the halted flag stay as they are
C7_DisabledFormIsQuiet ==
  [][ (Leaves("entry") /\ ~isHalted /\ isValid /\ ~isFormEnabled) =>
        /\ pc' = "settle"
        /\ chainVal' = Ok("undefined")
        /\ NoHookInvoked(run')
        /\ ~run'.validationShown /\ run'.shown = <<>> /\ run'.displayed = <<>>
        /\ trace'.emitted = <<>>
        /\ UNCHANGED <<_isFormEnabled, _isHalted, _isErrorVisible, successVisible,
                       tooltips, invalidEls, _previousFormValues, fields>> ]_vars

C7_Witness ==
  /\ pc = "settle"
  /\ run.seen = [checked |-> TRUE, halted |-> FALSE, valid |-> TRUE, enabled |-> FALSE]
  /\ chainVal = Ok("undefined")
  /\ NoHookInvoked(run)

\* C8, as stated: a halted view stays halted, and a call of validateAndSubmit made
\* on it triggers no signal and changes no state
C8_HaltedCallHasNoEffect ==
  [][ _isHalted =>
        /\ _isHalted'
        /\ IsCall => (trace'.emitted = <<>> /\ UNCHANGED progVars) ]_vars

\* what a call made on a halted view never touches
HaltedCallFrame ==
  UNCHANGED <<hooks, rendered, fields, _previousFormValues, _isHalted, _isFormEnabled,
              _isErrorVisible, successVisible, tooltips, invalidEls>>

\* C8, amended: a halted view stays halted under every later operation, and a call
\* of validateAndSubmit made on it triggers submitStart and no other signal, holds
\* the single-flight flag until it resolves, and does nothing else: no validation,
\* no error shown, no hook invoked, no other state changed
C8_HaltedStaysHalted ==
  [][ _isHalted =>
        /\ _isHalted'
        /\ (~_isSubmitting /\ IsCall) =>
             /\ trace'.call = "accepted"
             /\ trace'.emitted = << <<"submitStart">> >>
             /\ pc' = "entry" /\ _isSubmitting'
             /\ HaltedCallFrame
        /\ Leaves("entry") =>
             /\ pc' = "settle" /\ chainVal' = Ok("undefined")
             /\ NoHookInvoked(run')
             /\ ~run'.validationShown /\ run'.shown = <<>> /\ run'.displayed = <<>>
             /\ trace'.emitted = <<>>
             /\ _isSubmitting'
             /\ HaltedCallFrame
        /\ (Leaves("settle") /\ run.seen.halted) =>
             /\ pc' = "idle" /\ ~_isSubmitting'
             /\ trace'.emitted = <<>>
             /\ HaltedCallFrame ]_vars

C8_Witness == _isHalted /\ pc = "settle" /\ run.seen.halted /\ chainVal = Ok("undefined")

\* C9: the default afterSubmit: a result with a truthy halt halts the view and does
\* not enable the form; any other result enables the form exactly when no error is
\* visible; either way the result is passed on unchanged
C9_AfterSubmitPolicy ==
  [][ Leaves("afterSubmit") =>
        /\ pc' = "settle"
        /\ chainVal' = chainVal
        /\ IF chainVal.val = "halt"
             THEN _isHalted' /\ UNCHANGED _isFormEnabled
             ELSE /\ UNCHANGED _isHalted
                  /\ ~isErrorVisible => _isFormEnabled'
                  /\ isErrorVisible => UNCHANGED _isFormEnabled ]_vars

C9_Witness ==
  /\ pc = "settle"
  /\ run.afterSubmit = "resolved"
  /\ chainVal = Ok("obj")
  /\ _isErrorVisible
  /\ ~_isFormEnabled

\* C10: when beforeSubmit resolves to false submit is skipped, afterSubmit still runs,
\* with an undefined result, and the promise resolves; for every other value that
\* beforeSubmit resolves to, undefined included, submit is invoked
C10_FalseSkipsSubmitOnly ==
  /\ run.shouldSubmit = "false" =>
       /\ run.submit = "notStarted"
       /\ pc = "afterSubmit" => chainVal = Ok("undefined")
       /\ pc = "settle" => run.afterSubmit = "resolved" /\ chainVal = Ok("undefined")
       /\ pc \in {"gate", "callAfterSubmit", "afterSubmit", "settle"}
  /\ (run.shouldSubmit \in {"undefined", "true"} /\ pc # "gate") =>
       run.submit # "notStarted"

C10_Witness ==
  /\ pc = "settle"
  /\ run.shouldSubmit = "false"
  /\ run.submit = "notStarted"
  /\ run.afterSubmit = "resolved"

-----------------------------------------------------------------------------
(* Properties of enablement, validation and change detection *)

\* the stages of _submitForm, from the call of beforeSubmit to afterSubmit's callback
InPipeline ==
  pc \in {"beforeSubmit", "gate", "submit", "onError", "callAfterSubmit", "afterSubmit"}

\* C11, as stated: while a submission is in flight the form is disabled, whatever
\* beforeSubmit hook the view has, and no step that is not one of the pipeline's own
\* enables it
C11_DisabledWhileSubmitting ==
  [][ /\ InPipeline' => ~_isFormEnabled'
      /\ (_isSubmitting /\ pc' = pc) => UNCHANGED _isFormEnabled ]_vars

\* C11, amended: it is the default beforeSubmit that disables the form: with it the
\* form is disabled from beforeSubmit to afterSubmit's callback; with a beforeSubmit
\* overridden not to disable it the form stays enabled all along; and with either,
\* an input event handled while the submission is in flight changes neither
\* enablement nor the visible error or success message
C11_DefaultHookDisables ==
  [][ /\ (InPipeline' /\ hooks.beforeSubmit = "default") => ~_isFormEnabled'
      /\ (InPipeline' /\ hooks.beforeSubmit = "override") => _isFormEnabled'
      /\ (_isSubmitting /\ pc' = pc) =>
           UNCHANGED <<_isFormEnabled, _isErrorVisible, successVisible>> ]_vars

\* the user has changed a field while submit is pending and the form is still disabled
C11_Witness ==
  /\ pc = "submit"
  /\ hooks.beforeSubmit = "default"
  /\ ~_isFormEnabled
  /\ ~isValid
  /\ _previousFormValues = getFormValues

\* C12: with the default beforeSubmit, when submit rejects the form is left disabled
\* and the submission ends (the flag is lowered and the next validateAndSubmit is
\* accepted); a disabled form starts no pipeline, and it is enabled again only by the
\* handling of a field change that leaves the form valid
C12_RejectedStaysDisabled ==
  [][ hooks.beforeSubmit = "default" =>
        /\ Leaves("onError") => pc' = "settle" /\ ~_isFormEnabled' /\ _isErrorVisible'
        /\ (Leaves("settle") /\ run.error # "none") =>
             pc' = "idle" /\ ~_isSubmitting' /\ ~_isFormEnabled' /\ _isErrorVisible'
        /\ (~_isSubmitting /\ IsCall) => trace'.call = "accepted" /\ pc' = "entry"
        /\ (Leaves("entry") /\ ~_isFormEnabled) => pc' = "settle" /\ ~_isFormEnabled'
        /\ (~InPipeline /\ ~_isFormEnabled /\ _isFormEnabled') =>
             /\ fields' # fields
             /\ getFormValues' # _previousFormValues
             /\ isValid'
             /\ ~_isSubmitting ]_vars

\* submit has rejected: the error is shown and the valid form is disabled
C12_Witness ==
  /\ hooks.beforeSubmit = "default"
  /\ pc = "settle"
  /\ run.submit = "rejected"
  /\ chainVal = Thrown("E1")
  /\ isValid
  /\ ~_isFormEnabled
  /\ _isErrorVisible

RuleHoldsOn(f, i) ==
  CASE getElementType(i) = "email" ->
         Trim(f[i]) # <<>> /\ isEmailValid(Trim(f[i]))
    [] getElementType(i) = "password" ->
         f[i] # <<>> /\ isPasswordValid(f[i])
    [] OTHER ->
         (FormEls[i].required => f[i] # <<>>) /\ NativeValidity(i, f[i])

\* the in-scope elements that fail their rule
BadElsOn(f) == {i \in ElIds : InScope(i) /\ ~RuleHoldsOn(f, i)}

BadEls == BadElsOn(fields)

FirstBad == CHOOSE k \in BadEls : \A j \in BadEls : k <= j

ExpectedValidOn(f) == hooks.isValidStart /\ BadElsOn(f) = {} /\ hooks.isValidEnd

\* the form with other values in the inputs inside #coppa
CoppaVariants ==
  { [i \in ElIds |-> IF InScope(i) THEN fields[i] ELSE c] :
      c \in UNION {FormValues(i) : i \in {k \in ElIds : ~InScope(k)}} }

\* C14: isValid() is false exactly when isValidStart fails, or an input outside #coppa
\* fails the rule of its kind, or isValidEnd fails; what the inputs inside #coppa hold
\* never changes the answer
C14_IsValidIffRules ==
  /\ \A f \in CoppaVariants : isValid <=> ExpectedValidOn(f)
  /\ trace.call = "isValid" => trace.emitted = Returned(ExpectedValidOn(fields))

\* isValid() has answered true while the required input inside #coppa is empty
C14_Witness ==
  /\ trace.call = "isValid"
  /\ trace.emitted = Returned(TRUE)
  /\ fields[4] = EmptyStr /\ FormEls[4].inCoppa /\ FormEls[4].required

\* C15: a call of isValid() changes nothing: no error shown or hidden, no tooltip, no
\* signal, and enablement, the submitting and halted flags and the change-detection
\* baseline as before
C15_IsValidIsPure ==
  [][ trace'.call = "isValid" =>
        /\ Len(trace'.emitted) = 1 /\ trace'.emitted[1][1] = "return"
        /\ UNCHANGED <<_isErrorVisible, successVisible, tooltips, invalidEls,
                       _isFormEnabled, _isSubmitting, _isHalted, _previousFormValues,
                       fields, hooks>> ]_vars

\* isValid() found the enabled form invalid, and the error on screen is still there
C15_Witness ==
  /\ trace.call = "isValid"
  /\ trace.emitted = Returned(FALSE)
  /\ _isErrorVisible
  /\ _isFormEnabled
  /\ _previousFormValues # getFormValues

\* C16, as stated: showValidationErrors shows the error of the first invalid in-scope
\* field, anchored to that field, a generic required field included
C16_FirstInvalidIsReported ==
  [][ (trace'.call = "showValidationErrors" /\ ~showValidationErrorsStart /\ BadEls # {}) =>
        tooltips' = tooltips (+) SetToBag({[el |-> FirstBad, state |-> "rendering"]}) ]_vars

\* C16, amended: showValidationErrors looks at the first invalid in-scope field and at
\* no other: an email or password field gets one tooltip, anchored to it; a generic
\* field gets none, and nothing is shown for any field after it
C16_FirstInvalidOrNothing ==
  [][ trace'.call = "showValidationErrors" =>
        IF /\ ~showValidationErrorsStart
           /\ BadEls # {}
           /\ getElementType(FirstBad) \in {"email", "password"}
          THEN /\ tooltips' = tooltips (+) SetToBag({[el |-> FirstBad, state |-> "rendering"]})
               /\ Len(trace'.emitted) = 2
          ELSE /\ tooltips' = tooltips
               /\ trace'.emitted = Returned("undefined") ]_vars

\* the name is empty and the email after it is invalid: nothing is shown
C16_Witness ==
  /\ trace.call = "showValidationErrors"
  /\ trace.emitted = Returned("undefined")
  /\ ~showValidationErrorsStart
  /\ FirstBad = 1 /\ 2 \in BadEls
  /\ tooltips = EmptyBag

\* C17: the kind of the error reported for the first invalid field: for an email,
\* INVALID_EMAIL when something is left after trimming and EMAIL_REQUIRED when not;
\* for a password, PASSWORD_TOO_SHORT when it is not empty and PASSWORD_REQUIRED when
\* it is; the message returned is that kind's
C17_KindByFieldAndEmptiness ==
  [][ (trace'.call = "showValidationErrors" /\ Len(trace'.emitted) = 2) =>
        /\ BadEls # {}
        /\ LET kind == trace'.emitted[1][2] IN
           /\ trace'.emitted[1][1] = "logError"
           /\ trace'.emitted[2] = <<"return", toMessage(kind)>>
           /\ getElementType(FirstBad) \in {"email", "password"}
           /\ getElementType(FirstBad) = "email" =>
                kind = IF Trim(fields[FirstBad]) # <<>>
                         THEN "INVALID_EMAIL" ELSE "EMAIL_REQUIRED"
           /\ getElementType(FirstBad) = "password" =>
                kind = IF fields[FirstBad] # <<>>
                         THEN "PASSWORD_TOO_SHORT" ELSE "PASSWORD_REQUIRED" ]_vars

\* an email of blanks only is reported as missing
C17_Witness ==
  /\ trace.call = "showValidationErrors"
  /\ Len(trace.emitted) = 2
  /\ trace.emitted[1] = <<"logError", "EMAIL_REQUIRED">>
  /\ fields[2] = Blank

\* the snapshot of the form: every element's value, an email's trimmed
Snapshot ==
  [i \in ElIds |-> IF FormEls[i].type = "email" THEN Trim(fields[i]) ELSE fields[i]]

\* C19: detectFormValueChanges returns the snapshot when it differs from the baseline
\* (always when there is no baseline yet) and null when it does not, and leaves the
\* baseline alone; updateFormValueChanges makes the snapshot the baseline, so that a
\* detectFormValueChanges right after it returns null
C19_ChangeDetection ==
  [][ /\ trace'.call = "detectFormValueChanges" =>
           /\ UNCHANGED <<_previousFormValues, fields>>
           /\ trace'.emitted =
                Returned(IF _previousFormValues = NoValues \/ Snapshot # _previousFormValues
                           THEN Snapshot ELSE NoValues)
           /\ trace.call = "updateFormValueChanges" => trace'.emitted = Returned(NoValues)
      /\ trace'.call = "updateFormValueChanges" =>
           /\ _previousFormValues' = Snapshot
           /\ UNCHANGED fields ]_vars

\* update, then detect: null, and the baseline is the snapshot
C19_Witness ==
  /\ ~rendered
  /\ trace.call = "detectFormValueChanges"
  /\ trace.emitted = Returned(NoValues)
  /\ _previousFormValues = Snapshot

\* the tooltips on screen
Visible == {d \in BagToSet(tooltips) : d.state = "rendered"}

EventStep ==
  /\ rendered /\ rendered'
  /\ pc' = pc
  /\ tooltips' = tooltips
  /\ trace' = Did("none", <<>>)

\* C20: an event on the form runs enableSubmitIfValid exactly when the snapshot taken
\* then differs from the baseline, and the snapshot becomes the baseline; an event
\* with no change of value validates nothing, hides no message and leaves enablement
\* as it is (and so does enableSubmitIfValid while submitting or halted)
C20_EventsGatedByChange ==
  [][ EventStep =>
        /\ _previousFormValues' = Snapshot'
        /\ IF Snapshot' # _previousFormValues /\ ~_isSubmitting /\ ~_isHalted
             THEN /\ ~_isErrorVisible' /\ ~successVisible'
                  /\ _isFormEnabled' <=> ExpectedValidOn(fields')
             ELSE UNCHANGED <<_isErrorVisible, successVisible, _isFormEnabled>> ]_vars

\* a blank typed after the email is no change: the error is still shown and the
\* valid form still disabled
C20_Witness ==
  /\ rendered /\ pc = "idle" /\ ~_isHalted
  /\ fields[2] = PaddedEmail
  /\ _previousFormValues = Snapshot
  /\ isValid
  /\ _isErrorVisible
  /\ ~_isFormEnabled

\* C21: enableSubmitIfValid called while a submission is in flight or on a halted view
\* does nothing: no message is hidden, nothing is validated, enablement stays; called
\* on an idle view it hides the error and the success message and makes enablement
\* equal to isValid()
C21_EnableSubmitIfValid ==
  [][ trace'.call = "enableSubmitIfValid" =>
        /\ trace'.emitted = <<>>
        /\ UNCHANGED <<hooks, rendered, fields, _previousFormValues, _isSubmitting,
                       _isHalted, tooltips, invalidEls, pc, chainVal, run>>
        /\ IF _isSubmitting \/ _isHalted
             THEN UNCHANGED <<_isErrorVisible, successVisible, _isFormEnabled>>
             ELSE /\ ~_isErrorVisible' /\ ~successVisible'
                  /\ _isFormEnabled' <=> ExpectedValidOn(fields) ]_vars

\* called on a halted view showing a success message: the message is still there and
\* the valid form still disabled
C21_Witness ==
  /\ trace.call = "enableSubmitIfValid"
  /\ _isHalted /\ ~_isSubmitting
  /\ successVisible
  /\ isValid
  /\ ~_isFormEnabled

\* enablement says no more than validity does
EnabledImpliesValid == _isFormEnabled => isValid

\* C22, as stated: on a screen with no carried-over error, whenever the rendered view
\* is idle, not halted, and every field change has been handled, an enabled form is a
\* valid form, edits made while a submission was in flight included
C22_EnabledImpliesValidWhenIdle ==
  (/\ rendered /\ pc = "idle" /\ ~_isSubmitting /\ ~_isHalted
   /\ _previousFormValues = getFormValues)
    => EnabledImpliesValid

\* C22, amended: afterRender makes enablement equal to validity, and from then on an
\* enabled form is a valid form until a field is edited while a submission is in
\* flight: the edit leaves enablement as it is, and afterSubmit enables the form
\* without validating it, so that the idle view can then be enabled and invalid
C22_EnabledImpliesValidUnlessEditedInFlight ==
  [][ /\ (~rendered /\ rendered') => (_isFormEnabled' <=> isValid')
      /\ (rendered /\ EnabledImpliesValid /\ ~EnabledImpliesValid') =>
           \/ _isSubmitting /\ fields' # fields
           \/ Leaves("afterSubmit") /\ fields' = fields /\ run.seen.valid ]_vars

\* the submission is over and the form is enabled with the name cleared meanwhile
C22_Witness ==
  /\ rendered /\ pc = "idle" /\ ~_isSubmitting /\ ~_isHalted
  /\ hooks.beforeSubmit = "default"
  /\ _previousFormValues = getFormValues
  /\ _isFormEnabled
  /\ ~isValid

\* the error passed from the previous screen is on screen: with the default
\* beforeSubmit, an error shown by a submission is shown on a disabled form, so a
\* visible error on a form still enabled as rendered is the one carried over
CarriedOnScreen ==
  /\ hooks.beforeSubmit = "default"
  /\ rendered
  /\ _isErrorVisible
  /\ _isFormEnabled

\* C23, as stated: afterRender seeds the baseline and runs enableSubmitIfValid only
\* when the model carries no error, and the error carried over is hidden only by a
\* step in which a field value changes
C23_HiddenOnlyByFieldChange ==
  [][ /\ (~rendered /\ rendered') => _previousFormValues' = Snapshot'
      /\ (CarriedOnScreen /\ ~_isErrorVisible') => fields' # fields ]_vars

\* C23, amended: afterRender seeds the baseline and runs enableSubmitIfValid only
\* when the model carries no error; an event that comes with the values unchanged
\* leaves the error where it is, an event hides it only when a value has changed, and
\* the one other thing that hides the error carried over is a validateAndSubmit that
\* finds the form invalid
C23_CarriedErrorSurvivesEvents ==
  [][ /\ (~rendered /\ rendered') =>
           /\ _previousFormValues' = Snapshot'
           /\ IF modelHasError
                THEN UNCHANGED <<_isErrorVisible, successVisible, _isFormEnabled>>
                ELSE ~_isErrorVisible' /\ (_isFormEnabled' <=> isValid')
      /\ (EventStep /\ Snapshot' = _previousFormValues) => UNCHANGED _isErrorVisible
      /\ (EventStep /\ _isErrorVisible /\ ~_isErrorVisible') => fields' # fields
      /\ (CarriedOnScreen /\ ~_isErrorVisible') =>
           \/ EventStep /\ fields' # fields /\ Snapshot' # _previousFormValues
           \/ Leaves("entry") /\ ~isValid /\ ~isHalted ]_vars

\* a blank typed after the email carried over: the error carried over is still shown
C23_Witness ==
  /\ CarriedOnScreen
  /\ pc = "idle"
  /\ fields[2] = PaddedEmail
  /\ _previousFormValues = Snapshot
  /\ ~isValid

\* C24: showValidationErrors hides the visible error before anything else; when
\* showValidationErrorsStart returns truthy, no field's error is shown and
\* showValidationErrorsEnd is not called; showValidationErrorsEnd is called only when
\* showValidationErrorsStart returned falsy and every in-scope field is valid
C24_StartSuppressesEndNeedsValid ==
  [][ trace'.call = "showValidationErrors" =>
        LET calls == trace'.calls
            made == {k \in 1..Len(calls) : calls[k] = "showValidationErrorsEnd"}
            hidden == {k \in 1..Len(calls) : calls[k] = "hideError"}
        IN
        /\ hidden = {1}
        /\ ~_isErrorVisible'
        /\ calls[2] = "showValidationErrorsStart"
        /\ showValidationErrorsStart =>
             /\ Len(calls) = 2
             /\ tooltips' = tooltips
             /\ trace'.emitted = Returned("undefined")
        /\ made # {} =>
             /\ ~showValidationErrorsStart
             /\ BadEls = {}
             /\ made = {Len(calls)}
             /\ tooltips' = tooltips ]_vars

\* showValidationErrorsStart returned truthy on a form with an invalid email: the
\* error is hidden and nothing is shown for the email
C24_Witness ==
  /\ trace.call = "showValidationErrors"
  /\ showValidationErrorsStart
  /\ 2 \in BadEls
  /\ trace.calls = <<"hideError", "showValidationErrorsStart">>
  /\ tooltips = EmptyBag
  /\ ~_isErrorVisible

\* C25: a field is marked invalid only while a validation tooltip for it exists:
\* whichever of a tooltip's render completion and its destroy comes first, a field
\* that is marked has a displayed tooltip, and once the tooltip is destroyed no
\* validation_error is triggered for it after its validation_error_removed
C25_MarkedOnlyWhileTooltipExists ==
  [][ /\ \A i \in invalidEls' :
           \E d \in BagToSet(tooltips') : d.el = i /\ d.state = "rendered"
      /\ \A t \in BagToSet(tooltips) :
           (t.state = "destroyed" /\ CopiesIn(t, tooltips') < CopiesIn(t, tooltips)) =>
             \A k \in 1..Len(trace'.emitted) :
               trace'.emitted[k] # <<"validation_error", t.el>> ]_vars

\* a field that the resume token and the query string both hold
InBoth(a, n) == search.resume[a] # Absent /\ search.params[n] # Absent

\* C26: once fetch is fulfilled, every field held both by the resume token and by
\* the query string has the query parameter's value; when the email parameter is the
\* disallow-cached-credentials constant the email is unset and
\* allowCachedCredentials() returns false, and it returns true when not
C26_QueryOverridesResume ==
  relier.fetch = "fulfilled" =>
    LET attrs == relier.attributes
        disallowed == search.params.email = DISALLOW_CACHED_CREDENTIALS
    IN
    /\ InBoth("entrypoint", "entrypoint") => attrs.entrypoint = search.params.entrypoint
    /\ InBoth("utmSource", "utm_source") => attrs.utmSource = search.params.utm_source
    /\ InBoth("resetPasswordConfirm", "reset_password_confirm") =>
         (attrs.resetPasswordConfirm <=> search.params.reset_password_confirm = "true")
    /\ disallowed => attrs.email = Unset
    /\ attrs.allowCachedCredentials <=> ~disallowed
    /\ trace.call = "allowCachedCredentials" => trace.emitted = Returned(~disallowed)

\* a page address with email=blank and a utm_source that the resume token holds too:
\* after fetch the source is the query string's and allowCachedCredentials() is false
C26_Witness ==
  /\ relier.fetch = "fulfilled"
  /\ search.params.email = DISALLOW_CACHED_CREDENTIALS
  /\ InBoth("utmSource", "utm_source")
  /\ relier.attributes.utmSource = "query-source"
  /\ relier.attributes.email = Unset
  /\ trace.call = "allowCachedCredentials"
  /\ trace.emitted = Returned(FALSE)

====
